---- MODULE Spec2Model ----
(***************************************************************************)
(* Model of the statement-analysis frontend: the response filter of        *)
(* App.handleSubmit, the two aggregations (DashboardMetrics and            *)
(* CategoryPieChart) and the upload session of the two App components of   *)
(* the repository (frontend/src/App.jsx, which posts with axios, and the   *)
(* second App component, which uses fetch).                                *)
(***************************************************************************)
EXTENDS Integers, Sequences, FiniteSets, TLC

(***************************************************************************)
(* JavaScript values.  A value is a record [t, n, s]: t is the kind of the *)
(* value, n the integer of a finite number, s the text of a string or the  *)
(* name of a non-finite number.                                            *)
(***************************************************************************)
Undefined == [t |-> "undefined", n |-> 0, s |-> ""]
Null == [t |-> "null", n |-> 0, s |-> ""]
Str(x) == [t |-> "string", n |-> 0, s |-> x]
Num(k) == [t |-> "number", n |-> k, s |-> ""]
NaN == [t |-> "number", n |-> 0, s |-> "NaN"]
Infinity == [t |-> "number", n |-> 0, s |-> "Infinity"]
NegInfinity == [t |-> "number", n |-> 0, s |-> "-Infinity"]

\* typeof v
TypeOf(v) == IF v.t \in {"null", "array"} THEN "object" ELSE v.t

IsFinite(v) == v.t = "number" /\ v.s = ""

\* isNaN(v), for v of type number
isNaN(v) == v = NaN

\* ToBoolean(v): the test of `v &&` and `v ||`
Truthy(v) ==
  CASE v.t \in {"undefined", "null"} -> FALSE
    [] v.t = "number" -> IF v.s = "" THEN v.n # 0 ELSE v.s # "NaN"
    [] v.t = "string" -> v.s # ""
    [] OTHER -> TRUE

\* ToNumber(v) of a primitive; the strings of the model are "", "-5" and
\* texts that are no numeric literal.
ToNumber(v) ==
  CASE v.t = "number" -> v
    [] v.t = "undefined" -> NaN
    [] v.t = "null" -> Num(0)
    [] v.t = "string" ->
         IF v.s = "" THEN Num(0) ELSE IF v.s = "-5" THEN Num(0 - 5) ELSE NaN
    [] OTHER -> NaN

\* a < 0 and a > 0, with the operand converted to a number
LessThanZero(v) ==
  LET x == ToNumber(v) IN IF x.s = "" THEN x.n < 0 ELSE x.s = "-Infinity"

GreaterThanZero(v) ==
  LET x == ToNumber(v) IN IF x.s = "" THEN x.n > 0 ELSE x.s = "Infinity"

\* a + b of two numbers
Plus(a, b) ==
  CASE a.s = "NaN" \/ b.s = "NaN" -> NaN
    [] a.s = "" /\ b.s = "" -> Num(a.n + b.n)
    [] a.s = "" -> b
    [] b.s = "" -> a
    [] a.s = b.s -> a
    [] OTHER -> NaN

\* Math.abs(v)
MathAbsKeepingSign(v) == ToNumber(v)

MathAbs(v) ==
  LET x == ToNumber(v)
  IN  CASE x.s = "NaN" -> NaN
        [] x.s = "" -> Num(IF x.n < 0 THEN 0 - x.n ELSE x.n)
        [] OTHER -> Infinity

(***************************************************************************)
(* Elements of a response array.  An element is a value with the four      *)
(* properties the code reads; reading a property a value does not have     *)
(* gives undefined.                                                        *)
(***************************************************************************)
Tx(d, desc, cat, amt) ==
  [t |-> "object", n |-> 0, s |-> "",
   date |-> d, description |-> desc, category |-> cat, amount |-> amt]

Prim(v) ==
  [t |-> v.t, n |-> v.n, s |-> v.s,
   date |-> Undefined, description |-> Undefined, category |-> Undefined,
   amount |-> Undefined]

OpeningBalance == Str("Opening Balance")

Groceries == Tx(Str("2024-01-03"), Str("Groceries"), Str("Food"), Num(0 - 1500))
Salary == Tx(Str("2024-01-01"), Str("Salary"), Str("Income"), Num(50000))
Rent == Tx(Str("2024-01-05"), Str("Rent"), Str("Other"), Num(0 - 200))

WellFormed == {Groceries, Salary, Rent}

\* Records that differ from a well-formed one in one field.
BadLabels == {Undefined, Str("")}
BadAmounts == {Undefined, Str("abc"), Str("-5"), NaN, Infinity, NegInfinity}

Malformed ==
  {[Groceries EXCEPT !.date = v] : v \in BadLabels}
    \cup {[Groceries EXCEPT !.description = v] : v \in BadLabels}
    \cup {[Groceries EXCEPT !.category = v] : v \in BadLabels}
    \cup {[Groceries EXCEPT !.amount = v] : v \in BadAmounts}

Sentinels ==
  {[Groceries EXCEPT !.description = OpeningBalance],
   [Salary EXCEPT !.description = OpeningBalance, !.category = Str("Other")],
   [Groceries EXCEPT !.category = OpeningBalance]}

ZeroAmount == [Salary EXCEPT !.amount = Num(0)]

Records == WellFormed \cup Malformed \cup Sentinels \cup {ZeroAmount}

NonRecords == {Prim(Null), Prim(Str("x")), Prim([Null EXCEPT !.t = "array"])}

Elements == Records \cup NonRecords

(***************************************************************************)
(* Response bodies: a JSON value, an array carrying its items.             *)
(***************************************************************************)
Arr(items) == [t |-> "array", n |-> 0, s |-> "", items |-> items]
Scalar(v) == [t |-> v.t, n |-> v.n, s |-> v.s, items |-> <<>>]

MaxLen == 3

RECURSIVE SeqsUpTo(_, _)
SeqsUpTo(S, k) ==
  IF k = 0 THEN {<<>>}
  ELSE LET shorter == SeqsUpTo(S, k - 1)
       IN  shorter \cup {Append(q, e) : q \in {p \in shorter : Len(p) = k - 1}, e \in S}

\* An object that holds a list under a property, as in {"transactions": [...]}:
\* no array, though it carries items.
Wrapped == [t |-> "object", n |-> 0, s |-> "", items |-> <<Groceries, Salary>>]

NonArrays ==
  {Scalar(Str("not an array")), Scalar(Null), Scalar(Num(7)),
   Scalar([Null EXCEPT !.t = "object"]), Wrapped}

\* The bodies whose arrays have at most k items.
RawBodies(k) == NonArrays \cup {Arr(q) : q \in SeqsUpTo(Elements, k)}

isArray(body) == body.t = "array"

(***************************************************************************)
(* The response filter of App.handleSubmit.                                *)
(***************************************************************************)
\* The callback of response.data.filter: the conjunction decides, so a
\* falsy operand rejects the element.
AdmitsWithoutSentinelCheck(tx) ==
  /\ Truthy(tx)
  /\ TypeOf(tx) = "object"
  /\ TypeOf(tx.amount) = "number"
  /\ ~isNaN(tx.amount)
  /\ Truthy(tx.date)
  /\ Truthy(tx.description)
  /\ Truthy(tx.category)

AdmitsUnlessCategorySentinel(tx) ==
  /\ Truthy(tx)
  /\ TypeOf(tx) = "object"
  /\ tx.category # OpeningBalance
  /\ TypeOf(tx.amount) = "number"
  /\ ~isNaN(tx.amount)
  /\ Truthy(tx.date)
  /\ Truthy(tx.description)
  /\ Truthy(tx.category)

Admits(tx) ==
  /\ Truthy(tx)
  /\ TypeOf(tx) = "object"
  /\ tx.description # OpeningBalance
  /\ TypeOf(tx.amount) = "number"
  /\ ~isNaN(tx.amount)
  /\ Truthy(tx.date)
  /\ Truthy(tx.description)
  /\ Truthy(tx.category)

validTransactionsOfAnyBody(data) == SelectSeq(data.items, Admits)

validTransactionsDroppingFirst(data) ==
  IF isArray(data) /\ data.items # <<>>
  THEN SelectSeq(Tail(data.items), Admits)
  ELSE <<>>

validTransactions(data) ==
  IF isArray(data) THEN SelectSeq(data.items, Admits) ELSE <<>>

(***************************************************************************)
(* DashboardMetrics: two filtered passes, each reduced from 0.             *)
(***************************************************************************)
RECURSIVE reduceSum(_, _)
reduceSum(txs, sum) ==
  IF txs = <<>> THEN sum ELSE reduceSum(Tail(txs), Plus(sum, Head(txs).amount))

IsIncome(tx) == GreaterThanZero(tx.amount)
IsExpense(tx) == LessThanZero(tx.amount)

DashboardMetricsSubtracting(txs) ==
  LET totalIncome == reduceSum(SelectSeq(txs, IsIncome), Num(0))
      totalExpenses == reduceSum(SelectSeq(txs, IsExpense), Num(0))
  IN  [totalIncome |-> totalIncome,
       totalExpenses |-> totalExpenses,
       netSavings |-> Plus(totalIncome, MathAbs(totalExpenses))]

DashboardMetrics(txs) ==
  LET totalIncome == reduceSum(SelectSeq(txs, IsIncome), Num(0))
      totalExpenses == reduceSum(SelectSeq(txs, IsExpense), Num(0))
  IN  [totalIncome |-> totalIncome,
       totalExpenses |-> totalExpenses,
       netSavings |-> Plus(totalIncome, totalExpenses)]

(***************************************************************************)
(* CategoryPieChart: the expenses, summed by category in an object.        *)
(***************************************************************************)
\* Reading tx.amount of null or undefined raises a TypeError.
Unreadable(tx) == tx.t \in {"null", "undefined"}

IsSpending(tx) == LessThanZero(tx.amount) /\ tx.description # OpeningBalance

\* The property name of a label; the labels of the model are strings.
PropertyKey(v) == v.s

\* acc[category] || 0
OrZero(acc, key) ==
  IF key \in DOMAIN acc /\ Truthy(acc[key]) THEN acc[key] ELSE Num(0)

Put(acc, key, v) ==
  [k \in DOMAIN acc \cup {key} |-> IF k = key THEN v ELSE acc[k]]

EmptyObject == [k \in {} |-> Num(0)]

RECURSIVE reduceByCategory(_, _)
reduceByCategory(txs, acc) ==
  IF txs = <<>> THEN acc
  ELSE LET tx == Head(txs)
           category == IF Truthy(tx.category) THEN tx.category ELSE Str("Other")
           key == PropertyKey(category)
       IN  reduceByCategory(Tail(txs),
                            Put(acc, key, Plus(OrZero(acc, key), MathAbs(tx.amount))))

IsSpendingWithSentinel(tx) == LessThanZero(tx.amount)

spendingByCategoryWithSentinel(txs) ==
  reduceByCategory(SelectSeq(txs, IsSpendingWithSentinel), EmptyObject)

spendingByCategory(txs) ==
  reduceByCategory(SelectSeq(txs, IsSpending), EmptyObject)

ChartThrows(txs) == \E i \in 1..Len(txs) : Unreadable(txs[i])

(***************************************************************************)
(* State.                                                                  *)
(*   app            which App component runs: "axios" is                   *)
(*                  frontend/src/App.jsx, "fetch" the second App component *)
(*   file, password, transactions, loading, error                          *)
(*                  the five useState cells of App                         *)
(*   inflight       the requests handed to the transport and not settled   *)
(*   last           the handler that ran last, with its input              *)
(*                  and, for a settled request, the file it was sent for   *)
(*   data, phase, validated, metrics, spending, rawSpending                *)
(*                  one response taken through the filter and the two      *)
(*                  dashboard components                                   *)
(***************************************************************************)
VARIABLES app, file, password, transactions, loading, error, inflight, last,
          data, phase, validated, metrics, spending, rawSpending

session == <<app, file, password, transactions, loading, error, inflight, last>>
pipeline == <<data, phase, validated, metrics, spending, rawSpending>>
vars == <<app, file, password, transactions, loading, error, inflight, last,
          data, phase, validated, metrics, spending, rawSpending>>

(***************************************************************************)
(* Inputs of the session.                                                  *)
(***************************************************************************)
FileHandle(name) == [t |-> "object", n |-> 0, s |-> name]

\* e.target.files[0]: a File, or undefined when the selection is emptied
Selections == {FileHandle("a.pdf"), FileHandle("b.xlsx"), Undefined}

Passwords == {"", "secret"}

NotJson == [t |-> "text", n |-> 0, s |-> "<html>", items |-> <<>>]
ErrorObject == Scalar([Null EXCEPT !.t = "object"])

ResponseBodies ==
  {Scalar(Str("not an array")), Scalar(Null), Arr(<<>>),
   Arr(<<Salary>>),
   Arr(<<[Salary EXCEPT !.description = OpeningBalance, !.category = Str("Other")],
         Groceries>>),
   Arr(<<[Groceries EXCEPT !.amount = Str("abc")], Rent>>),
   Arr(<<[Groceries EXCEPT !.description = OpeningBalance]>>),
   Arr(<<[Groceries EXCEPT !.amount = Infinity], Salary>>)}

NoReply == [kind |-> "none", status |-> 0, body |-> Scalar(Undefined), detail |-> Undefined]
Timeout == [NoReply EXCEPT !.kind = "timeout"]
NoResponse == [NoReply EXCEPT !.kind = "noResponse"]
Response(status, body, detail) ==
  [kind |-> "response", status |-> status, body |-> body, detail |-> detail]

SuccessReplies == {Response(200, b, Undefined) : b \in ResponseBodies \cup {NotJson}}
ErrorReplies ==
  {Response(400, ErrorObject, Str("Incorrect password")),
   Response(500, ErrorObject, Undefined),
   Response(502, NotJson, Undefined)}

IsSuccess(reply) == reply.kind = "response" /\ reply.status \in 200..299

Event(name) ==
  [ev |-> name, reply |-> NoReply, selected |-> Undefined, file |-> Undefined]

(***************************************************************************)
(* Initial state: the useState initial values.                             *)
(***************************************************************************)
NoError == IF app = "axios" THEN Null ELSE Str("")

PipelineIdle ==
  /\ data = Scalar(Undefined)
  /\ phase = "idle"
  /\ validated = <<>>
  /\ metrics = [totalIncome |-> Num(0), totalExpenses |-> Num(0), netSavings |-> Num(0)]
  /\ spending = EmptyObject
  /\ rawSpending = EmptyObject

SessionInit ==
  /\ file = Null
  /\ password = ""
  /\ transactions = Arr(<<>>)
  /\ loading = FALSE
  /\ error = NoError
  /\ inflight = <<>>
  /\ last = Event("mount")

Init ==
  /\ app \in {"axios", "fetch"}
  /\ SessionInit
  /\ PipelineIdle

(***************************************************************************)
(* handleFileChange and the password input.                                *)
(***************************************************************************)
handleFileChangeKeepingError(selected) ==
  /\ file' = selected
  /\ transactions' = Arr(<<>>)
  /\ last' = [Event("fileChange") EXCEPT !.selected = selected]
  /\ UNCHANGED <<app, password, loading, error, inflight, pipeline>>

handleFileChangeStoppingSpinner(selected) ==
  /\ file' = selected
  /\ transactions' = Arr(<<>>)
  /\ error' = NoError
  /\ loading' = FALSE
  /\ last' = [Event("fileChange") EXCEPT !.selected = selected]
  /\ UNCHANGED <<app, password, inflight, pipeline>>

handleFileChange(selected) ==
  /\ file' = selected
  /\ transactions' = Arr(<<>>)
  /\ error' = NoError
  /\ last' = [Event("fileChange") EXCEPT !.selected = selected]
  /\ UNCHANGED <<app, password, loading, inflight, pipeline>>

setPassword(value) ==
  /\ password' = value
  /\ last' = Event("passwordChange")
  /\ UNCHANGED <<app, file, transactions, loading, error, inflight, pipeline>>

(***************************************************************************)
(* handleSubmit, up to its first await.                                    *)
(***************************************************************************)
SelectFileFirst ==
  IF app = "axios" THEN Str("Please select a file first.")
  ELSE Str("Please select a PDF file first.")

Request(f, p) == [file |-> f, password |-> p, status |-> 0]

handleSubmitWithoutGuard ==
  /\ loading' = TRUE
  /\ error' = NoError
  /\ transactions' = Arr(<<>>)
  /\ inflight' = Append(inflight, Request(file, password))
  /\ last' = Event("submit")
  /\ UNCHANGED <<app, file, password, pipeline>>

handleSubmitKeepingResult ==
  IF ~Truthy(file)
  THEN /\ error' = SelectFileFirst
       /\ last' = Event("submitRejected")
       /\ UNCHANGED <<app, file, password, transactions, loading, inflight, pipeline>>
  ELSE /\ loading' = TRUE
       /\ error' = NoError
       /\ inflight' = Append(inflight, Request(file, password))
       /\ last' = Event("submit")
       /\ UNCHANGED <<app, file, password, transactions, pipeline>>

handleSubmit ==
  IF ~Truthy(file)
  THEN /\ error' = SelectFileFirst
       /\ last' = Event("submitRejected")
       /\ UNCHANGED <<app, file, password, transactions, loading, inflight, pipeline>>
  ELSE /\ loading' = TRUE
       /\ error' = NoError
       /\ transactions' = Arr(<<>>)
       /\ inflight' = Append(inflight, Request(file, password))
       /\ last' = Event("submit")
       /\ UNCHANGED <<app, file, password, pipeline>>

\* disabled={loading || !file} on the submit button
submitDisabledIgnoringLoading == ~Truthy(file)

submitDisabled == loading \/ ~Truthy(file)

SubmitClick == ~submitDisabled /\ handleSubmit

(***************************************************************************)
(* handleSubmit of App.jsx after the await: the response filter, or the    *)
(* catch block, then finally.                                              *)
(***************************************************************************)
RemoveAt(q, i) == SubSeq(q, 1, i - 1) \o SubSeq(q, i + 1, Len(q))

\* response.data: axios parses a JSON body and leaves any other text a string
ResponseData(body) == IF body.t = "text" THEN Scalar(Str(body.s)) ELSE body

\* The error axios rejects with.  No cancel token is passed and the request
\* configuration is fixed, so neither a cancellation nor a setup error arises.
AxiosError(reply) ==
  [isCancel |-> FALSE,
   code |-> CASE reply.kind = "timeout" -> "ECONNABORTED"
              [] reply.kind = "noResponse" -> "ERR_NETWORK"
              [] OTHER -> "ERR_BAD_RESPONSE",
   hasResponse |-> reply.kind = "response",
   status |-> reply.status,
   detail |-> reply.detail,
   hasRequest |-> TRUE,
   message |-> "Network Error"]

NoTransactionsExtracted ==
  "Analysis complete, but no valid transactions were extracted from this file."
TimedOut ==
  "The request timed out (90s). The file might be too large or the AI analysis is taking too long."
CouldNotConnect ==
  "Could not connect to the backend server. Please ensure it is running."

errorMessage(err) ==
  IF err.isCancel THEN "Request cancelled."
  ELSE IF err.code = "ECONNABORTED" THEN TimedOut
  ELSE IF err.hasResponse
    THEN "Error: " \o (IF Truthy(err.detail) THEN err.detail.s
                       ELSE "Server responded with status " \o ToString(err.status))
  ELSE IF err.hasRequest THEN CouldNotConnect
  ELSE "An error occurred during the request setup: " \o err.message

AxiosSettlesKeepingLoading(i, reply) ==
  /\ app = "axios"
  /\ i \in 1..Len(inflight)
  /\ IF IsSuccess(reply)
     THEN LET valid == validTransactions(ResponseData(reply.body))
          IN  IF Len(valid) > 0
              THEN transactions' = Arr(valid) /\ error' = Null
              ELSE transactions' = Arr(<<>>) /\ error' = Str(NoTransactionsExtracted)
     ELSE /\ error' = Str(errorMessage(AxiosError(reply)))
          /\ transactions' = Arr(<<>>)
  /\ loading' = IF IsSuccess(reply) THEN FALSE ELSE loading
  /\ inflight' = RemoveAt(inflight, i)
  /\ last' = [Event("settled") EXCEPT !.reply = reply, !.file = inflight[i].file]
  /\ UNCHANGED <<app, file, password, pipeline>>

AxiosSettles(i, reply) ==
  /\ app = "axios"
  /\ i \in 1..Len(inflight)
  /\ IF IsSuccess(reply)
     THEN LET valid == validTransactions(ResponseData(reply.body))
          IN  IF Len(valid) > 0
              THEN transactions' = Arr(valid) /\ error' = Null
              ELSE transactions' = Arr(<<>>) /\ error' = Str(NoTransactionsExtracted)
     ELSE /\ error' = Str(errorMessage(AxiosError(reply)))
          /\ transactions' = Arr(<<>>)
  /\ loading' = FALSE
  /\ inflight' = RemoveAt(inflight, i)
  /\ last' = [Event("settled") EXCEPT !.reply = reply, !.file = inflight[i].file]
  /\ UNCHANGED <<app, file, password, pipeline>>

(***************************************************************************)
(* handleSubmit of the fetch App after its awaits.  fetch settles when the *)
(* status line arrives or the connection fails; response.json() settles    *)
(* when the body has been read.  Neither wait is bounded.                  *)
(***************************************************************************)
FailedToFetch == "Failed to fetch"
UnexpectedToken == "Unexpected token '<', \"<html>\" is not valid JSON"
UnknownError == "An unknown error occurred during analysis."

FetchRejects(i) ==
  /\ app = "fetch"
  /\ i \in 1..Len(inflight)
  /\ inflight[i].status = 0
  /\ error' = Str(FailedToFetch)
  /\ loading' = FALSE
  /\ inflight' = RemoveAt(inflight, i)
  /\ last' = [Event("settled") EXCEPT !.reply = NoResponse, !.file = inflight[i].file]
  /\ UNCHANGED <<app, file, password, transactions, pipeline>>

FetchResolves(i, status) ==
  /\ app = "fetch"
  /\ i \in 1..Len(inflight)
  /\ inflight[i].status = 0
  /\ inflight' = [inflight EXCEPT ![i].status = status]
  /\ last' = Event("headers")
  /\ UNCHANGED <<app, file, password, transactions, loading, error, pipeline>>

\* The message of the error that reaches the catch block, "" when none does.
FetchFailure(reply) ==
  IF reply.body.t = "text" THEN UnexpectedToken
  ELSE IF ~IsSuccess(reply)
    THEN (IF Truthy(reply.detail) THEN reply.detail.s ELSE UnknownError)
  ELSE ""

JsonSettles(i, reply) ==
  /\ app = "fetch"
  /\ i \in 1..Len(inflight)
  /\ inflight[i].status # 0
  /\ reply.status = inflight[i].status
  /\ IF FetchFailure(reply) = ""
     THEN transactions' = reply.body /\ error' = error
     ELSE error' = Str(FetchFailure(reply)) /\ transactions' = transactions
  /\ loading' = FALSE
  /\ inflight' = RemoveAt(inflight, i)
  /\ last' = [Event("settled") EXCEPT !.reply = reply, !.file = inflight[i].file]
  /\ UNCHANGED <<app, file, password, pipeline>>

(***************************************************************************)
(* The session as the page drives it.                                      *)
(***************************************************************************)
Replies == SuccessReplies \cup ErrorReplies
Statuses == {r.status : r \in Replies}

Next ==
  \/ \E selected \in Selections : handleFileChange(selected)
  \/ \E value \in Passwords : setPassword(value)
  \/ SubmitClick
  \/ \E i \in 1..Len(inflight), reply \in Replies \cup {Timeout, NoResponse} :
       AxiosSettles(i, reply)
  \/ \E i \in 1..Len(inflight) : FetchRejects(i)
  \/ \E i \in 1..Len(inflight), status \in Statuses : FetchResolves(i, status)
  \/ \E i \in 1..Len(inflight), reply \in Replies : JsonSettles(i, reply)

Spec == Init /\ [][Next]_vars

(***************************************************************************)
(* The transport of App.jsx is given timeout: 90000, so a request it holds *)
(* settles: with a response, a connection failure, or the timeout.  The    *)
(* fetch App passes no timeout and no abort signal, so nothing makes its   *)
(* two awaits settle.                                                      *)
(***************************************************************************)
AxiosTransport ==
  \E i \in 1..Len(inflight), reply \in Replies \cup {Timeout, NoResponse} :
    AxiosSettles(i, reply)

FairSpec == Init /\ [][Next]_vars /\ WF_vars(AxiosTransport)

(***************************************************************************)
(* The session with the submit event of the form dispatched to             *)
(* handleSubmit whatever the state of the button (the handler is the       *)
(* form's onSubmit).                                                       *)
(***************************************************************************)
MaxInflight == 2

SubmitEvent ==
  /\ Truthy(file) => Len(inflight) < MaxInflight
  /\ handleSubmit

NextSubmitEvent ==
  \/ \E selected \in Selections : handleFileChange(selected)
  \/ \E value \in Passwords : setPassword(value)
  \/ SubmitEvent
  \/ \E i \in 1..Len(inflight), reply \in Replies \cup {Timeout, NoResponse} :
       AxiosSettles(i, reply)
  \/ \E i \in 1..Len(inflight) : FetchRejects(i)
  \/ \E i \in 1..Len(inflight), status \in Statuses : FetchResolves(i, status)
  \/ \E i \in 1..Len(inflight), reply \in Replies : JsonSettles(i, reply)

SpecSubmitEvent == Init /\ [][NextSubmitEvent]_vars

(***************************************************************************)
(* One response body taken through the filter of App.jsx and rendered by   *)
(* DashboardMetrics and CategoryPieChart; and the chart given the items of *)
(* the body as they came.                                                  *)
(***************************************************************************)
InitPipeline ==
  /\ app = "axios"
  /\ SessionInit
  /\ data \in RawBodies(MaxLen)
  /\ phase = "response"
  /\ validated = <<>>
  /\ metrics = [totalIncome |-> Num(0), totalExpenses |-> Num(0), netSavings |-> Num(0)]
  /\ spending = EmptyObject
  /\ rawSpending = EmptyObject

Filter ==
  /\ phase = "response"
  /\ validated' = validTransactions(data)
  /\ phase' = "filtered"
  /\ UNCHANGED <<session, data, metrics, spending, rawSpending>>

RenderDashboard ==
  /\ phase = "filtered"
  /\ metrics' = DashboardMetrics(validated)
  /\ spending' = spendingByCategory(validated)
  /\ phase' = "rendered"
  /\ UNCHANGED <<session, data, validated, rawSpending>>

RenderChartUnfiltered ==
  /\ phase = "response"
  /\ isArray(data)
  /\ IF ChartThrows(data.items)
     THEN phase' = "chartThrew" /\ rawSpending' = rawSpending
     ELSE phase' = "chartOnly" /\ rawSpending' = spendingByCategory(data.items)
  /\ UNCHANGED <<session, data, validated, metrics, spending>>

NextPipeline == Filter \/ RenderDashboard \/ RenderChartUnfiltered

SpecPipeline == InitPipeline /\ [][NextPipeline]_vars

(***************************************************************************)
(* Properties.                                                             *)
(***************************************************************************)
Present(v) == v \notin {Undefined, Null, Str("")}

Filtered == phase \in {"filtered", "rendered"}

\* C1: every element the filter returns is a non-null record whose
\* description is not "Opening Balance", whose amount is a finite number and
\* whose date, description and category are present and non-empty.
C1_ValidatorTotality ==
  Filtered =>
    \A i \in 1..Len(validated) :
      LET tx == validated[i]
      IN  /\ tx.t = "object"
          /\ tx.description # OpeningBalance
          /\ tx.amount.t = "number"
          /\ IsFinite(tx.amount)
          /\ Present(tx.date)
          /\ Present(tx.description)
          /\ Present(tx.category)

SettledWithSuccess == last.ev = "settled" /\ IsSuccess(last.reply)
SettledWithFailure == last.ev = "settled" /\ ~IsSuccess(last.reply)

\* C2: right after a success response has been handled, transactions is the
\* filtered response and error is cleared when the filtered response is
\* non-empty, transactions is empty and error is the "no valid transactions"
\* message when it is empty; isLoading is false in both cases.
C2_SuccessOutcome ==
  SettledWithSuccess =>
    LET valid == validTransactions(ResponseData(last.reply.body))
    IN  /\ ~loading
        /\ IF valid # <<>>
           THEN transactions = Arr(valid) /\ ~Truthy(error)
           ELSE transactions = Arr(<<>>) /\ error = Str(NoTransactionsExtracted)

\* C3: right after a failure of the transport (timeout, no response, error
\* status) has been handled, error is a non-empty message, transactions is
\* empty and isLoading is false.
C3_FailureOutcome ==
  SettledWithFailure =>
    /\ error.t = "string"
    /\ error.s # ""
    /\ transactions = Arr(<<>>)
    /\ ~loading

C3_Witness ==
  /\ SettledWithFailure
  /\ last.reply.kind \in {"timeout", "noResponse"}
  /\ Truthy(file)

\* C4: whenever isLoading is true, a state with isLoading false follows.
C4_RequestSettles == loading ~> ~loading

\* C5: at most one request is outstanding in every reachable state.
C5_AtMostOneOutstanding == Len(inflight) <= 1

C5_Witness ==
  /\ Len(inflight) = 1
  /\ Truthy(file)
  /\ last.ev = "passwordChange"

NotSentinel(tx) == tx.description # OpeningBalance
WithoutSentinel(body) ==
  IF isArray(body) THEN Arr(SelectSeq(body.items, NotSentinel)) ELSE body

\* C6: a record whose description is "Opening Balance" is in no filtered
\* response, and the metrics and the category totals are those of the
\* response with these records taken out.
C6_SentinelExclusion ==
  /\ Filtered => \A i \in 1..Len(validated) : validated[i].description # OpeningBalance
  /\ phase = "rendered" =>
       LET rest == validTransactions(WithoutSentinel(data))
       IN  metrics = DashboardMetrics(rest) /\ spending = spendingByCategory(rest)
  /\ phase = "chartOnly" =>
       rawSpending = spendingByCategory(WithoutSentinel(data).items)

C6_Witness ==
  /\ phase = "rendered"
  /\ validated # <<>>
  /\ \E i \in 1..Len(data.items) :
       /\ data.items[i].description = OpeningBalance
       /\ AdmitsWithoutSentinelCheck(data.items[i])
       /\ GreaterThanZero(data.items[i].amount)

\* C7: a submit event with no file selected hands nothing to the transport;
\* it sets error to the "select a file first" message and changes none of
\* isLoading (false when no request is outstanding), transactions, file and
\* password.
C7_SubmitWithoutFile ==
  [][/\ ~Truthy(file) => last'.ev # "submit"
     /\ last'.ev = "submitRejected" =>
          /\ ~Truthy(file)
          /\ error' = SelectFileFirst
          /\ inflight' = inflight
          /\ loading' = loading
          /\ inflight = <<>> => ~loading'
          /\ transactions' = transactions
          /\ file' = file
          /\ password' = password]_vars

C7_Witness ==
  /\ last.ev = "submitRejected"
  /\ error = SelectFileFirst
  /\ ~loading
  /\ inflight = <<>>

\* C8: a file selection, in any state, empties transactions, clears error,
\* records the selected file and changes neither isLoading nor password.
C8_FileSelected ==
  [][last'.ev = "fileChange" =>
       /\ transactions' = Arr(<<>>)
       /\ ~Truthy(error')
       /\ file' = last'.selected
       /\ loading' = loading
       /\ password' = password
       /\ inflight' = inflight]_vars

C8_Witness ==
  /\ last.ev = "fileChange"
  /\ loading
  /\ Len(inflight) = 1
  /\ file # inflight[1].file

RECURSIVE SumBySign(_, _, _)
SumBySign(txs, k, sign) ==
  IF k = 0 THEN 0
  ELSE SumBySign(txs, k - 1, sign)
         + (IF txs[k].amount.n * sign > 0 THEN txs[k].amount.n ELSE 0)

AllFinite(txs) == \A i \in 1..Len(txs) : IsFinite(txs[i].amount)

\* C9: on a list of finite amounts, totalIncome is the sum of the amounts
\* > 0, totalExpenses the sum of the amounts < 0 (so <= 0), netSavings their
\* sum, and all three are 0 on the empty list.
C9_Summary ==
  (phase = "rendered" /\ AllFinite(validated)) =>
    LET income == SumBySign(validated, Len(validated), 1)
        expenses == SumBySign(validated, Len(validated), 0 - 1)
    IN  /\ metrics.totalIncome = Num(income)
        /\ metrics.totalExpenses = Num(expenses)
        /\ metrics.totalExpenses.n <= 0
        /\ metrics.netSavings = Num(income + expenses)
        /\ validated = <<>> =>
             metrics = [totalIncome |-> Num(0), totalExpenses |-> Num(0),
                        netSavings |-> Num(0)]

C9_Witness ==
  /\ phase = "rendered"
  /\ AllFinite(validated)
  /\ \E i, j \in 1..Len(validated) :
       validated[i].amount.n > 0 /\ validated[j].amount.n < 0
  /\ metrics.netSavings.n # 0

Label(tx) == IF Truthy(tx.category) THEN tx.category.s ELSE "Other"

Spent(txs, c) ==
  {i \in 1..Len(txs) :
     /\ LessThanZero(txs[i].amount)
     /\ txs[i].description # OpeningBalance
     /\ Label(txs[i]) = c}

RECURSIVE AbsSum(_, _)
AbsSum(txs, I) ==
  IF I = {} THEN Num(0)
  ELSE LET i == CHOOSE j \in I : TRUE
       IN  Plus(MathAbs(txs[i].amount), AbsSum(txs, I \ {i}))

IsCategoryTotals(m, txs) ==
  /\ DOMAIN m = {c \in {Label(txs[i]) : i \in 1..Len(txs)} : Spent(txs, c) # {}}
  /\ \A c \in DOMAIN m : m[c] = AbsSum(txs, Spent(txs, c))
  /\ (\A i \in 1..Len(txs) : ~LessThanZero(txs[i].amount)) => m = EmptyObject

C11_NonArrayGivesEmpty ==
  (Filtered /\ ~isArray(data)) => validated = <<>>

C11_Witness ==
  /\ Filtered
  /\ data = Wrapped
  /\ validated = <<>>

\* The admission checks: a non-null record, description not "Opening
\* Balance", amount a finite number, date, description and category present
\* and non-empty.
PassesAdmission(tx) ==
  /\ tx.t = "object"
  /\ tx.description # OpeningBalance
  /\ IsFinite(tx.amount)
  /\ Present(tx.date)
  /\ Present(tx.description)
  /\ Present(tx.category)

RECURSIVE KeptUpTo(_, _)
KeptUpTo(items, k) ==
  IF k = 0 THEN <<>>
  ELSE IF PassesAdmission(items[k]) THEN Append(KeptUpTo(items, k - 1), items[k])
  ELSE KeptUpTo(items, k - 1)

\* C12: the filter returns exactly the elements of the array that pass the
\* admission checks, in their order in the array, each decided on its own.
C12_OrderedSubsequence ==
  (Filtered /\ isArray(data)) => validated = KeptUpTo(data.items, Len(data.items))

\* C13: a timeout gives the message naming the timeout, a response with an
\* error status gives the body's detail when it has one and otherwise the
\* server-error message with the status code, and a request without a
\* response gives the "could not connect" message.
C13_FailureClassification ==
  SettledWithFailure =>
    CASE last.reply.kind = "timeout" -> error = Str(TimedOut)
      [] last.reply.kind = "noResponse" -> error = Str(CouldNotConnect)
      [] OTHER ->
           IF Truthy(last.reply.detail)
           THEN error.s \in {last.reply.detail.s, "Error: " \o last.reply.detail.s}
           ELSE error.s = "Error: Server responded with status "
                            \o ToString(last.reply.status)

CategorySentinel(tx) == tx.t = "object" /\ tx.category = OpeningBalance

NotCategorySentinel(tx) == ~CategorySentinel(tx)

WithoutCategorySentinel(body) ==
  IF isArray(body) THEN Arr(SelectSeq(body.items, NotCategorySentinel)) ELSE body

\* C14 as stated: a record whose category is "Opening Balance" is in no
\* filtered response and adds nothing to the metrics or to a category total.
C14_CategorySentinelExcluded ==
  /\ Filtered => \A i \in 1..Len(validated) : ~CategorySentinel(validated[i])
  /\ phase = "rendered" =>
       LET rest == validTransactions(WithoutCategorySentinel(data))
       IN  metrics = DashboardMetrics(rest) /\ spending = spendingByCategory(rest)

\* C14: the sentinel is a description, not a category: a record that passes
\* the other checks of the filter is kept exactly when its description is not
\* "Opening Balance", whatever its category, and the chart has the key
\* "Opening Balance" exactly when a kept record of that category has an
\* amount below zero.
C14_SentinelIsDescription ==
  /\ (Filtered /\ isArray(data)) =>
       \A i \in 1..Len(data.items) :
         LET tx == data.items[i]
         IN  AdmitsWithoutSentinelCheck(tx) =>
               ((\E j \in 1..Len(validated) : validated[j] = tx)
                  <=> tx.description # OpeningBalance)
  /\ phase = "rendered" =>
       (OpeningBalance.s \in DOMAIN spending
          <=> \E j \in 1..Len(validated) :
                /\ validated[j].category = OpeningBalance
                /\ LessThanZero(validated[j].amount))

C14_Witness ==
  /\ phase = "rendered"
  /\ OpeningBalance.s \in DOMAIN spending
  /\ \E j \in 1..Len(validated) : validated[j].category = OpeningBalance
  /\ \E i \in 1..Len(data.items) :
       /\ data.items[i].description = OpeningBalance
       /\ AdmitsWithoutSentinelCheck(data.items[i])

\* What the page shows below the form: the alert box with its heading and
\* the message when error is set, nothing is loading and transactions is
\* empty, and no box otherwise.
NoAlert == [shown |-> FALSE, role |-> "", heading |-> "", text |-> ""]

ErrorAlert ==
  IF Truthy(error) /\ ~loading /\ isArray(transactions) /\ Len(transactions.items) = 0
  THEN [shown |-> TRUE, role |-> "alert", heading |-> "Error: ", text |-> error.s]
  ELSE NoAlert

FailureMessages ==
  {errorMessage(AxiosError(reply)) : reply \in ErrorReplies \cup {Timeout, NoResponse}}

FailureAlerts ==
  {[shown |-> TRUE, role |-> "alert", heading |-> "Error: ", text |-> m] :
     m \in FailureMessages}

EmptyResult ==
  /\ app = "axios"
  /\ SettledWithSuccess
  /\ validTransactions(ResponseData(last.reply.body)) = <<>>

\* The session fields after an empty result are those of no failure.
EmptyResultStateDiffers == EmptyResult => error.s \notin FailureMessages

\* C15: after a success response with no valid transaction, the session
\* fields are those of no failure, and the page does not show the result the
\* way it shows a failure (the alert box headed "Error: ").
C15_EmptyResultDistinct ==
  EmptyResult =>
    /\ error.s \notin FailureMessages
    /\ \A box \in FailureAlerts :
         [ErrorAlert EXCEPT !.text = ""] # [box EXCEPT !.text = ""]

\* C16: filtering the filtered response again gives the filtered response,
\* and the metrics and the category totals of the twice filtered response
\* are those of the filtered response.
C16_Idempotence ==
  /\ Filtered => validTransactions(Arr(validated)) = validated
  /\ phase = "rendered" =>
       LET again == validTransactions(Arr(validated))
       IN  /\ DashboardMetrics(again) = metrics
           /\ spendingByCategory(again) = spending

C16_Witness ==
  /\ phase = "rendered"
  /\ isArray(data)
  /\ Len(validated) >= 2
  /\ Len(validated) < Len(data.items)
  /\ spending # EmptyObject

NotBelowZero(v) ==
  /\ v.t = "number"
  /\ IF v.s = "" THEN v.n >= 0 ELSE v.s = "Infinity"

C18_SubmitEntry ==
  last.ev = "submit" =>
    /\ loading
    /\ ~Truthy(error)
    /\ transactions = Arr(<<>>)
    /\ inflight # <<>>
    /\ inflight[Len(inflight)] = Request(file, password)

C18_Witness ==
  /\ last.ev = "submit"
  /\ Truthy(file)
  /\ password = "secret"
  /\ Len(inflight) = 1

\* C19: in every state transactions is an array and each of its elements
\* passes the admission checks: a record with the four fields present, a
\* finite amount and a description other than "Opening Balance".
C19_SessionHoldsAdmitted ==
  /\ isArray(transactions)
  /\ \A i \in 1..Len(transactions.items) : PassesAdmission(transactions.items[i])

\* C20: right after a response has been handled, a non-empty transactions
\* comes from a request that was submitted for the file now selected.
C20_ResultOfSelectedFile ==
  (last.ev = "settled" /\ transactions # Arr(<<>>)) => last.file = file

NonEmpty(txs) == IF isArray(txs) THEN Len(txs.items) > 0 ELSE Truthy(txs)

Outstanding == inflight # <<>>

\* C22: in every state isLoading is true exactly when a request is
\* outstanding, and a step of the file input or of the password field
\* leaves isLoading as it was.
C22_LoadingIffOutstanding ==
  /\ [](loading <=> Outstanding)
  /\ [][last'.ev \in {"fileChange", "passwordChange"} => loading' = loading]_vars

C22_Witness ==
  /\ loading
  /\ Outstanding
  /\ last.ev = "fileChange"
  /\ file # inflight[1].file

====
